---- MODULE Spec2Model ----
(***************************************************************************)
(* MoodMuse: the playlist-expansion and track-resolution pipeline.         *)
(*                                                                         *)
(*   musicService  (src/unnamed/part_001): cleanString, fetchWithRetry,    *)
(*                 fetchTrackDetails                                       *)
(*   App           (src/unnamed/part_000): handleImageUpload,              *)
(*                 fetchRemainingTracks, handleNext, handlePrev,           *)
(*                 handlePivot, handleLike, addSongsToPlaylist, resetApp   *)
(*   ImageUploader (src/components/ImageUploader.tsx): handleFile          *)
(*                                                                         *)
(* Strings are sequences of tokens: one-character strings, plus the        *)
(* keywords the normaliser's patterns look for.  null and undefined are    *)
(* the one-token sequences Null and Undef.                                 *)
(***************************************************************************)
EXTENDS Integers, Sequences, FiniteSets, TLC

(***************************************************************************)
(* Bounds of the model.                                                    *)
(***************************************************************************)
\* refine and pivot flows started in one run
MaxExpansions == 1
\* songs in one AI answer
MaxBatch == 2
\* files the user selects in one run
MaxFiles == 2
\* cap on the skip counter (the code lets it grow while the lock is held)
MaxSkips == 4

(***************************************************************************)
(* Program constants.                                                      *)
(***************************************************************************)
\* fetchWithRetry's default retries and delay
DefaultRetries == 2
DefaultDelay == 500
\* handleNext: a skip is fast below 8 seconds, 3 fast skips start a pivot
FastSkipSeconds == 8
PivotSkips == 3

(***************************************************************************)
(* JavaScript values.                                                      *)
(***************************************************************************)
Null == <<"null">>
Undef == <<"undefined">>

\* JS truthiness of a string-or-null value
Truthy(x) == x # Null /\ x # Undef /\ x # <<>>

\* String.prototype.toLowerCase, token by token
LowerTok(c) ==
  CASE c = "A" -> "a"
    [] c = "B" -> "b"
    [] c = "FEAT." -> "feat."
    [] c = "Remaster" -> "remaster"
    [] OTHER -> c

toLowerCase(s) == [i \in 1..Len(s) |-> LowerTok(s[i])]

\* String.prototype.trim
RECURSIVE TrimLeft(_)
TrimLeft(s) == IF s # <<>> /\ Head(s) = " " THEN TrimLeft(Tail(s)) ELSE s

RECURSIVE TrimRight(_)
TrimRight(s) ==
  IF s # <<>> /\ s[Len(s)] = " " THEN TrimRight(SubSeq(s, 1, Len(s) - 1)) ELSE s

trim(s) == TrimRight(TrimLeft(s))

\* String.prototype.includes
includes(s, t) ==
  \E i \in 1..(Len(s) - Len(t) + 1) : SubSeq(s, i, i + Len(t) - 1) = t

\* first index of token c in s at or after position from, 0 when there is none
IndexFrom(s, c, from) ==
  LET hits == {i \in from..Len(s) : s[i] = c}
  IN IF hits = {} THEN 0 ELSE CHOOSE i \in hits : \A j \in hits : i <= j

\* s.split(c)[0]
SplitFirst(s, c) ==
  LET p == IndexFrom(s, c, 1) IN IF p = 0 THEN s ELSE SubSeq(s, 1, p - 1)

(***************************************************************************)
(* cleanString (musicService).  Each replace is the JavaScript global      *)
(* replace of its pattern by "": leftmost match first, the scan resuming   *)
(* after the match.                                                        *)
(***************************************************************************)
MinOf(S) == CHOOSE i \in S : \A j \in S : i <= j

MaxOf(S) == CHOOSE i \in S : \A j \in S : i >= j

\* /\(feat\..*?\)/gi and /\(with.*?\)/gi : "(" kw ... up to the first ")"
RECURSIVE StripParenthetical(_, _)
StripParenthetical(s, kw) ==
  LET starts == {i \in 1..(Len(s) - 1) :
                   /\ s[i] = "("
                   /\ LowerTok(s[i + 1]) = kw
                   /\ IndexFrom(s, ")", i + 2) # 0}
  IN IF starts = {} THEN s
     ELSE LET i == MinOf(starts)
              j == IndexFrom(s, ")", i + 2)
          IN SubSeq(s, 1, i - 1)
               \o StripParenthetical(SubSeq(s, j + 1, Len(s)), kw)

\* /\[.*?\]/g : "[" ... up to the first "]"
RECURSIVE StripBracketed(_)
StripBracketed(s) ==
  LET starts == {i \in 1..Len(s) : s[i] = "[" /\ IndexFrom(s, "]", i + 1) # 0}
  IN IF starts = {} THEN s
     ELSE LET i == MinOf(starts)
              j == IndexFrom(s, "]", i + 1)
          IN SubSeq(s, 1, i - 1) \o StripBracketed(SubSeq(s, j + 1, Len(s)))

\* /-.*remaster.*/gi : from the leftmost "-" that has "remaster" after it, to the end
StripDashRemaster(s) ==
  LET starts == {i \in 1..Len(s) :
                   s[i] = "-" /\ \E k \in (i + 1)..Len(s) : LowerTok(s[k]) = "remaster"}
  IN IF starts = {} THEN s ELSE SubSeq(s, 1, MinOf(starts) - 1)

\* /remastered/gi
RECURSIVE StripRemastered(_)
StripRemastered(s) ==
  LET starts == {i \in 1..(Len(s) - 1) :
                   LowerTok(s[i]) = "remaster" /\ LowerTok(s[i + 1]) = "ed"}
  IN IF starts = {} THEN s
     ELSE LET i == MinOf(starts)
          IN SubSeq(s, 1, i - 1) \o StripRemastered(SubSeq(s, i + 2, Len(s)))

\* /-.*single/gi : from the leftmost "-" that has "single" after it, to the last "single"
StripDashSingle(s) ==
  LET starts == {i \in 1..Len(s) :
                   s[i] = "-" /\ \E k \in (i + 1)..Len(s) : LowerTok(s[k]) = "single"}
  IN IF starts = {} THEN s
     ELSE LET i == MinOf(starts)
              k == MaxOf({j \in (i + 1)..Len(s) : LowerTok(s[j]) = "single"})
          IN SubSeq(s, 1, i - 1) \o SubSeq(s, k + 1, Len(s))

\* /\(.*?version\)/gi : "(" ... up to the first "version)" after it
RECURSIVE StripVersion(_)
StripVersion(s) ==
  LET Ends(i) == {k \in (i + 1)..(Len(s) - 1) :
                    LowerTok(s[k]) = "version" /\ s[k + 1] = ")"}
      starts == {i \in 1..Len(s) : s[i] = "(" /\ Ends(i) # {}}
  IN IF starts = {} THEN s
     ELSE LET i == MinOf(starts)
              k == MinOf(Ends(i))
          IN SubSeq(s, 1, i - 1) \o StripVersion(SubSeq(s, k + 2, Len(s)))

cleanString(str) ==
  LET clean0 ==
        trim(StripVersion(StripDashSingle(StripRemastered(StripDashRemaster(
          StripBracketed(StripParenthetical(StripParenthetical(str, "feat."),
                                            "with")))))))
      clean1 == IF includes(clean0, <<"&">>)
                  THEN trim(SplitFirst(clean0, "&")) ELSE clean0
      clean2 == IF includes(clean1, <<",">>)
                  THEN trim(SplitFirst(clean1, ",")) ELSE clean1
  IN clean2

(***************************************************************************)
(* Tracks (types).  origin is a ghost field: it names the suggestion       *)
(* object an entry was spread from (...song, ...suggestion), as            *)
(* <<AI call, position in the answer>>.                                    *)
(***************************************************************************)
PlaceholderCover == <<"picsum", "blur=5">>

FallbackCover == <<"picsum", "blur=2">>

\* fetchTrackDetails: fallbackTrack
FallbackTrack(suggestion, index) ==
  [title |-> suggestion.title, artist |-> suggestion.artist,
   moodDescription |-> suggestion.moodDescription, origin |-> suggestion.origin,
   id |-> index, previewUrl |-> Null, coverUrl |-> FallbackCover,
   externalUrl |-> <<>>, isPlayable |-> FALSE]

\* artworkUrl100.replace('100x100bb', '600x600bb'): the first occurrence
HighRes(url) ==
  LET p == IndexFrom(url, "100x100bb", 1)
  IN IF p = 0 THEN url ELSE [url EXCEPT ![p] = "600x600bb"]

\* fetchTrackDetails: the Track built from a catalog result
BuildTrack(suggestion, index, track) ==
  LET highResCover ==
        IF Truthy(track.artworkUrl100) THEN HighRes(track.artworkUrl100) ELSE Null
  IN [title |-> IF Truthy(track.trackName) THEN track.trackName ELSE suggestion.title,
      artist |-> IF Truthy(track.artistName) THEN track.artistName
                 ELSE suggestion.artist,
      moodDescription |-> suggestion.moodDescription, origin |-> suggestion.origin,
      id |-> IF track.trackId # 0 THEN track.trackId ELSE index,
      previewUrl |-> track.previewUrl,
      coverUrl |-> IF Truthy(highResCover) THEN highResCover ELSE FallbackCover,
      externalUrl |-> track.trackViewUrl,
      isPlayable |-> Truthy(track.previewUrl)]

\* How a piece of fetchTrackDetails ends: it returns a Track, or an exception
\* leaves it
ReturnTrack(t) == [tag |-> "returned", track |-> <<t>>]

Raise == [tag |-> "raised", track |-> <<>>]

\* fetchTrackDetails, from "if (data && data.resultCount > 0)" to the end of
\* the try block; reading a field of results[0] of an empty list raises a
\* TypeError
TrackFromData(suggestion, index, data) ==
  IF ~data.isNull /\ data.resultCount > 0
    THEN IF data.results = <<>> THEN Raise
         ELSE ReturnTrack(BuildTrack(suggestion, index, data.results[1]))
    ELSE ReturnTrack(FallbackTrack(suggestion, index))

\* fetchTrackDetails: the manual artist filter of the secondary search
FilterByArtist(data, cleanArtist) ==
  IF data.resultCount > 0
    THEN LET hits == {k \in 1..Len(data.results) :
                        /\ Truthy(data.results[k].artistName)
                        /\ Truthy(cleanArtist)
                        /\ includes(toLowerCase(data.results[k].artistName),
                                    toLowerCase(cleanArtist))}
         IN IF hits = {} THEN data
            ELSE [isNull |-> FALSE, resultCount |-> 1,
                  results |-> <<data.results[MinOf(hits)]>>]
    ELSE data

\* A value fetchWithRetry returns: null (isNull), or a parsed JSON body
NullData == [isNull |-> TRUE, resultCount |-> 0, results |-> <<>>]

\* fetchWithRetry: what a 200 response with an empty body gives
EmptyResult == [isNull |-> FALSE, resultCount |-> 0, results |-> <<>>]

(***************************************************************************)
(* The catalog (iTunes Search API), an external collaborator: the results  *)
(* and JSON bodies the model lets it answer with.                          *)
(***************************************************************************)
HitFull ==
  [trackId |-> 7, previewUrl |-> <<"p">>, artworkUrl100 |-> <<"art", "100x100bb">>,
   trackViewUrl |-> <<"v">>, trackName |-> <<"A", "b">>, artistName |-> <<"b", "a">>]

HitNoPreview ==
  [trackId |-> 0, previewUrl |-> Undef, artworkUrl100 |-> Undef,
   trackViewUrl |-> <<"v">>, trackName |-> Undef, artistName |-> <<"A">>]

HitPlayable ==
  [trackId |-> 7, previewUrl |-> <<"p">>, artworkUrl100 |-> <<"art", "100x100bb">>,
   trackViewUrl |-> <<"v">>, trackName |-> <<"b">>, artistName |-> Undef]

HitEmptyPreview ==
  [trackId |-> 9, previewUrl |-> <<>>, artworkUrl100 |-> <<"art">>,
   trackViewUrl |-> <<"w">>, trackName |-> <<"b">>, artistName |-> Undef]

CatalogHits == {HitFull, HitNoPreview, HitEmptyPreview, HitPlayable}

JsonValues ==
  {NullData, EmptyResult,
   [isNull |-> FALSE, resultCount |-> 1, results |-> <<HitFull>>],
   [isNull |-> FALSE, resultCount |-> 1, results |-> <<HitNoPreview>>],
   [isNull |-> FALSE, resultCount |-> 2, results |-> <<HitEmptyPreview, HitFull>>],
   [isNull |-> FALSE, resultCount |-> 1, results |-> <<>>]}

\* what one HTTP attempt can end in
HttpOutcomes ==
  {[kind |-> k, body |-> NullData] :
     k \in {"403", "429", "httpError", "networkError", "emptyBody", "badJson"}}
  \cup {[kind |-> "json", body |-> d] : d \in JsonValues}

(***************************************************************************)
(* State.                                                                  *)
(***************************************************************************)
\* App (React state, the lock ref, and the asynchronous work in flight)
VARIABLES
  isLoading,         \* useState: the analysis of an upload is running
  hasUploaded,       \* useState
  playlist,          \* useState: sequence of Track
  currentIndex,      \* useState: the cursor (0-based)
  consecutiveSkips,  \* useState: the skip counter
  isGenerating,      \* isGeneratingRef.current: the generation lock
  flows,             \* handler invocations suspended at an await on the AI service
  passes,            \* fetchRemainingTracks invocations in flight
  pendingReads,      \* FileReader reads started by handleFile and not yet ended
  aiCalls,           \* AI calls issued so far
  expansions,        \* refine and pivot flows started so far
  filesSelected,     \* files selected so far
  placed             \* ghost: the origins of the suggestions seeded and appended
                     \* to the playlist since it was last emptied, in that order

\* one call of fetchTrackDetails, and the fetchWithRetry call inside it
VARIABLES
  rsug,      \* fetchTrackDetails: suggestion
  rindex,    \* fetchTrackDetails: index
  rpc,       \* "primary", "secondary", "returned", "raised"
  rprimary,  \* what the primary fetchWithRetry ended in
  rresult,   \* <<the Track returned>>, or <<>>
  fi,        \* fetchWithRetry: the loop variable i
  fpc,       \* fetchWithRetry: "attempt" (the fetch is awaited), "backoff" (the timer)
  calls      \* the fetchWithRetry calls made: attempts, waits and how each ended

avars == <<isLoading, hasUploaded, playlist, currentIndex, consecutiveSkips,
           isGenerating, flows, passes, pendingReads, aiCalls, expansions,
           filesSelected, placed>>

rvars == <<rsug, rindex, rpc, rprimary, rresult, fi, fpc, calls>>

\* cleanString applied to a string, and again to what it returned
VARIABLES
  cleanRuns  \* <<str, cleanString(str), cleanString(cleanString(str))>>, as far as run

cvars == <<cleanRuns>>

vars == <<avars, rvars, cvars>>

(***************************************************************************)
(* fetchWithRetry and fetchTrackDetails (musicService).                    *)
(***************************************************************************)
Thrown == [tag |-> "thrown", data |-> NullData]

Returned(d) == [tag |-> "returned", data |-> d]

\* AttemptEnd with only 403 recognised as the rate-limit status
AttemptEndOnly403(o, i, retries) ==
  IF o.kind = "403" THEN Returned(NullData)
  ELSE IF o.kind = "emptyBody" THEN Returned(EmptyResult)
  ELSE IF o.kind = "json" THEN Returned(o.body)
  ELSE IF i = retries THEN Thrown
  ELSE [tag |-> "retry", data |-> NullData]

\* AttemptEnd with the last-retry test off by one
AttemptEndLateThrow(o, i, retries) ==
  IF o.kind \in {"403", "429"} THEN Returned(NullData)
  ELSE IF o.kind = "emptyBody" THEN Returned(EmptyResult)
  ELSE IF o.kind = "json" THEN Returned(o.body)
  ELSE IF i = retries + 1 THEN Thrown
  ELSE [tag |-> "retry", data |-> NullData]

\* how fetchWithRetry's loop body ends for one HTTP attempt, in iteration i:
\* it returns a value (null on 403/429), throws (after the last retry), or
\* goes on to the backoff wait
AttemptEnd(o, i, retries) ==
  IF o.kind \in {"403", "429"} THEN Returned(NullData)
  ELSE IF o.kind = "emptyBody" THEN Returned(EmptyResult)
  ELSE IF o.kind = "json" THEN Returned(o.body)
  ELSE IF i = retries THEN Thrown
  ELSE [tag |-> "retry", data |-> NullData]

\* fetchWithRetry: the backoff delay after the failed attempt of iteration i
BackoffDelay(i, delay) == delay * (i + 1)

\* NeedsSecondary with the null test missing: null counts as "no data"
NeedsSecondaryOnNull(r1) ==
  r1.tag = "returned" /\ (r1.data.isNull \/ r1.data.resultCount = 0)

\* fetchTrackDetails: "if (!data || data.resultCount === 0)" after a primary
\* fetch that returned something other than null
NeedsSecondary(r1) ==
  r1.tag = "returned" /\ ~r1.data.isNull /\ r1.data.resultCount = 0

\* fetchTrackDetails: the body of the outer try block, given what the primary
\* fetchWithRetry (r1) and, when it is made, the secondary one (r2) end in.
\* The inner try/catch swallows a failure of the secondary fetch and leaves
\* data as the primary fetch gave it.
TryResolve(suggestion, index, r1, r2) ==
  IF r1.tag = "thrown" THEN Raise
  ELSE IF r1.data.isNull THEN ReturnTrack(FallbackTrack(suggestion, index))
  ELSE IF r1.data.resultCount = 0
    THEN IF r2.tag = "thrown" THEN TrackFromData(suggestion, index, r1.data)
         ELSE IF r2.data.isNull THEN ReturnTrack(FallbackTrack(suggestion, index))
         ELSE TrackFromData(suggestion, index,
                            FilterByArtist(r2.data, cleanString(suggestion.artist)))
  ELSE TrackFromData(suggestion, index, r1.data)

\* fetchTrackDetails without its outer catch
fetchTrackDetailsNoCatch(suggestion, index, r1, r2) ==
  TryResolve(suggestion, index, r1, r2)

\* fetchTrackDetails: the outer catch returns the fallback Track
fetchTrackDetails(suggestion, index, r1, r2) ==
  LET body == TryResolve(suggestion, index, r1, r2)
  IN IF body.tag = "raised" THEN ReturnTrack(FallbackTrack(suggestion, index))
     ELSE body

NewCall == [attempts |-> <<>>, waits |-> <<>>, result |-> "pending"]

\* the ghost log of the running fetchWithRetry call, after an attempt
Logged(o, end) ==
  [calls EXCEPT ![Len(calls)] =
     [@ EXCEPT !.attempts = Append(@, o.kind),
               !.result = IF end.tag = "retry" THEN "pending"
                          ELSE IF end.tag = "thrown" THEN "thrown"
                          ELSE IF end.data.isNull THEN "null" ELSE "value"]]

\* an HTTP attempt of the primary query ends
PrimaryAttempt(o) ==
  /\ rpc = "primary" /\ fpc = "attempt"
  /\ LET end == AttemptEnd(o, fi, DefaultRetries)
     IN IF end.tag = "retry"
          THEN /\ fpc' = "backoff"
               /\ calls' = Logged(o, end)
               /\ UNCHANGED <<rpc, rprimary, rresult, fi>>
        ELSE IF NeedsSecondary(end)
          THEN /\ rpc' = "secondary"
               /\ rprimary' = end
               /\ fi' = 0
               /\ calls' = Append(Logged(o, end), NewCall)
               /\ UNCHANGED <<rresult, fpc>>
        ELSE /\ rpc' = fetchTrackDetails(rsug, rindex, end, Thrown).tag
             /\ rprimary' = end
             /\ rresult' = fetchTrackDetails(rsug, rindex, end, Thrown).track
             /\ calls' = Logged(o, end)
             /\ UNCHANGED <<fi, fpc>>
  /\ UNCHANGED <<rsug, rindex, avars, cvars>>

\* an HTTP attempt of the secondary query ends
SecondaryAttempt(o) ==
  /\ rpc = "secondary" /\ fpc = "attempt"
  /\ LET end == AttemptEnd(o, fi, DefaultRetries)
     IN IF end.tag = "retry"
          THEN /\ fpc' = "backoff"
               /\ calls' = Logged(o, end)
               /\ UNCHANGED <<rpc, rresult>>
        ELSE /\ rpc' = fetchTrackDetails(rsug, rindex, rprimary, end).tag
             /\ rresult' = fetchTrackDetails(rsug, rindex, rprimary, end).track
             /\ calls' = Logged(o, end)
             /\ UNCHANGED fpc
  /\ UNCHANGED <<rsug, rindex, rprimary, fi, avars, cvars>>

\* fetchWithRetry's backoff timer fires: the next iteration starts
Backoff ==
  /\ rpc \in {"primary", "secondary"} /\ fpc = "backoff"
  /\ calls' = [calls EXCEPT ![Len(calls)].waits =
                 Append(@, BackoffDelay(fi, DefaultDelay))]
  /\ fi' = fi + 1
  /\ fpc' = "attempt"
  /\ UNCHANGED <<rsug, rindex, rpc, rprimary, rresult, avars, cvars>>

\* the suggestions fetchTrackDetails is called with
ResolveTitles ==
  {<<"A">>, <<>>, <<"a", " ", "(", "feat.", "b", ")">>, <<"b", "&", "a">>}

ResolveArtists == {<<"a">>, <<"B", ",", "a">>, <<>>}

ResolveInputs ==
  {[title |-> t, artist |-> a, moodDescription |-> <<"m">>, origin |-> <<0, 0>>] :
     t \in ResolveTitles, a \in ResolveArtists}

\* the App's state after construction (useState and useRef initial values)
AppInit ==
  /\ isLoading = FALSE
  /\ hasUploaded = FALSE
  /\ playlist = <<>>
  /\ currentIndex = 0
  /\ consecutiveSkips = 0
  /\ isGenerating = FALSE
  /\ flows = {}
  /\ passes = {}
  /\ pendingReads = 0
  /\ aiCalls = 0
  /\ expansions = 0
  /\ filesSelected = 0
  /\ placed = <<>>

\* no call of fetchTrackDetails is being followed
ResolverIdle ==
  /\ rsug = [title |-> <<>>, artist |-> <<>>, moodDescription |-> <<>>,
             origin |-> <<0, 0>>]
  /\ rindex = 0
  /\ rpc = "idle"
  /\ rprimary = Thrown
  /\ rresult = <<>>
  /\ fi = 0
  /\ fpc = "attempt"
  /\ calls = <<>>

\* cleanString is not being followed
CleanIdle == cleanRuns = <<>>

\* fetchTrackDetails is entered: the primary fetchWithRetry starts
ResolveInit ==
  /\ AppInit
  /\ CleanIdle
  /\ rsug \in ResolveInputs
  /\ rindex \in 0..MaxBatch
  /\ rpc = "primary"
  /\ rprimary = Thrown
  /\ rresult = <<>>
  /\ fi = 0
  /\ fpc = "attempt"
  /\ calls = <<NewCall>>

ResolveNext ==
  \/ \E o \in HttpOutcomes : PrimaryAttempt(o)
  \/ \E o \in HttpOutcomes : SecondaryAttempt(o)
  \/ Backoff

SpecResolve == ResolveInit /\ [][ResolveNext]_vars

(***************************************************************************)
(* Claims about the resolver, checked under SpecResolve.                   *)
(***************************************************************************)
NonEmptyString(x) == x # Null /\ x # Undef /\ Len(x) > 0

RetryableKinds == {"httpError", "networkError", "badJson"}

C5_RateLimitShortCircuit ==
  LET isFallback ==
        /\ Len(rresult) = 1
        /\ rresult[1].title = rsug.title
        /\ rresult[1].artist = rsug.artist
        /\ rresult[1].moodDescription = rsug.moodDescription
        /\ rresult[1].id = rindex
        /\ rresult[1].previewUrl = Null
        /\ rresult[1].isPlayable = FALSE
  IN /\ Len(calls) >= 1 /\ calls[1].result = "null" =>
          Len(calls) = 1 /\ rpc = "returned" /\ isFallback
     /\ Len(calls) = 2 /\ calls[2].result = "null" =>
          rpc = "returned" /\ isFallback

\* C5: the primary fetchWithRetry returned null on a retry, and
\* fetchTrackDetails returned
C5_Witness ==
  /\ rpc = "returned"
  /\ calls[1].result = "null"
  /\ Len(calls[1].attempts) = 2

\* C6 (no retry on 403/429): in every fetchWithRetry call, an attempt answered
\* with 403 or 429 is the call's last attempt, the call returns null, and no
\* backoff wait follows it (there are as many waits as attempts before it).
C6_NoRetryOnRateLimit ==
  \A c \in 1..Len(calls) :
    \A k \in 1..Len(calls[c].attempts) :
      calls[c].attempts[k] \in {"403", "429"} =>
        /\ k = Len(calls[c].attempts)
        /\ calls[c].result = "null"
        /\ Len(calls[c].waits) = k - 1
        /\ (c = Len(calls) => fpc = "attempt")

\* C6: a retry, after a transient failure, was answered with 429
C6_Witness ==
  /\ Len(calls) >= 1
  /\ calls[1].attempts = <<"networkError", "429">>

\* C7 (bounded retries): a fetchWithRetry call makes at most retries + 1 HTTP
\* attempts, with the linear backoff wait between them; it has ended when the
\* last one has been made; and it ends by raising exactly when retries + 1
\* attempts all failed with a retryable failure.
C7_BoundedRetries ==
  \A c \in 1..Len(calls) :
    LET call == calls[c]
        allRetryable == \A k \in 1..Len(call.attempts) :
                          call.attempts[k] \in RetryableKinds
    IN /\ Len(call.attempts) <= DefaultRetries + 1
       /\ Len(call.attempts) = DefaultRetries + 1 => call.result # "pending"
       /\ Len(call.waits) <= DefaultRetries
       /\ \A k \in 1..Len(call.waits) : call.waits[k] = DefaultDelay * k
       /\ (call.result = "thrown") <=>
            (allRetryable /\ Len(call.attempts) = DefaultRetries + 1)

\* C7: a call made three attempts, all failing, and ended by raising
C7_Witness ==
  /\ Len(calls) >= 1
  /\ calls[1].attempts = <<"httpError", "networkError", "badJson">>
  /\ calls[1].result = "thrown"

\* a catalog candidate whose artist name contains the cleaned artist name
ArtistMatches(candidate, cleanArtist) ==
  /\ candidate.artistName # Undef /\ candidate.artistName # Null
  /\ includes(toLowerCase(candidate.artistName), toLowerCase(cleanArtist))

\* C21 (secondary query needs an artist match): when the secondary query ends
\* for good, fetchTrackDetails returns a Track built from a candidate whose
\* artist name contains the cleaned artist name if there is one, and the
\* fallback Track when no candidate matches, none came, or the query failed.
C21_SecondaryNeedsArtistMatch ==
  [][\A o \in HttpOutcomes :
       (SecondaryAttempt(o) /\ rpc' # "secondary") =>
         LET end == AttemptEnd(o, fi, DefaultRetries)
             candidates ==
               IF end.tag = "returned" /\ ~end.data.isNull /\ end.data.resultCount > 0
                 THEN end.data.results ELSE <<>>
             matching == {k \in 1..Len(candidates) :
                            ArtistMatches(candidates[k], cleanString(rsug.artist))}
         IN /\ rpc' = "returned"
            /\ IF matching # {}
                 THEN \E k \in matching :
                        rresult' = <<BuildTrack(rsug, rindex, candidates[k])>>
                 ELSE rresult' = <<FallbackTrack(rsug, rindex)>>]_vars

(***************************************************************************)
(* The external collaborators, as the App sees them.                       *)
(***************************************************************************)
SongA ==
  [title |-> <<"A">>, artist |-> <<"b">>, moodDescription |-> <<"m">>]

SongAb ==
  [title |-> <<"a", "B", " ">>, artist |-> <<"b", "a">>, moodDescription |-> <<"m">>]

SongB ==
  [title |-> <<"b">>, artist |-> <<"A">>, moodDescription |-> <<"m">>]

AiSongs == <<SongA, SongAb, SongB>>

\* the song lists an AI call can answer with: of every length up to MaxBatch,
\* the runs of the cycle SongA, SongAb, SongB from each of its songs
AiAnswers ==
  {[k \in 1..n |-> AiSongs[((first + k - 2) % Len(AiSongs)) + 1]] :
     n \in 0..MaxBatch, first \in 1..Len(AiSongs)}

\* an AI call ends: with a list of songs, or by raising
AiOutcomes ==
  {[ok |-> TRUE, songs |-> a] : a \in AiAnswers} \cup {[ok |-> FALSE, songs |-> <<>>]}

\* the answer's songs, each tagged with the suggestion object it is
WithOrigin(songs, call) ==
  [k \in 1..Len(songs) |->
     [title |-> songs[k].title, artist |-> songs[k].artist,
      moodDescription |-> songs[k].moodDescription, origin |-> <<call, k - 1>>]]

\* what the two fetchWithRetry calls of one fetchTrackDetails can end in
FetchEnds ==
  {Thrown} \cup {Returned(d) : d \in {NullData, EmptyResult,
                                     [isNull |-> FALSE, resultCount |-> 1,
                                      results |-> <<HitPlayable>>]}}

\* the Tracks fetchTrackDetails(suggestion, index) can return
TrackDetailsResults(suggestion, index) ==
  {fetchTrackDetails(suggestion, index, r1, r2).track[1] :
     r1 \in FetchEnds, r2 \in FetchEnds}

\* Date.now()
Timestamps == {1000}

(***************************************************************************)
(* App: what is on screen (the JSX of App, Player and ImageUploader).      *)
(***************************************************************************)
\* Mode 1: the ImageUploader is rendered
UploadScreenShown ==
  ~hasUploaded \/ (hasUploaded /\ isLoading /\ playlist = <<>>)

\* the Player is rendered, with playlist[currentIndex]
PlayerShown == ~UploadScreenShown /\ currentIndex < Len(playlist)

\* the reset button is rendered
ResetShown == hasUploaded /\ ~isLoading

(***************************************************************************)
(* App: handlers.                                                          *)
(***************************************************************************)
\* handleImageUpload / addSongsToPlaylist: the placeholder of a suggestion
Placeholder(song, id) ==
  [title |-> song.title, artist |-> song.artist,
   moodDescription |-> song.moodDescription, origin |-> song.origin,
   id |-> id, previewUrl |-> Null, coverUrl |-> PlaceholderCover,
   externalUrl |-> <<>>, isPlayable |-> FALSE]

NewFlow(kind, call, snap) ==
  [kind |-> kind, call |-> call, pc |-> "ai", snap |-> snap, songs |-> <<>>]

\* fetchRemainingTracks(suggestions, startIndex, currentLength), entered
NewPass(call, suggestions, startIndex, currentLength) ==
  [call |-> call, suggestions |-> suggestions, startIndex |-> startIndex,
   currentLength |-> currentLength, i |-> startIndex, pc |-> "delay"]

\* fetchRemainingTracks: the loop runs at all
StartedPasses(call, suggestions, startIndex, currentLength) ==
  IF startIndex < Len(suggestions)
    THEN {NewPass(call, suggestions, startIndex, currentLength)}
    ELSE {}

\* a handler entry that never sees the lock
LockHeldNever == FALSE

\* handleImageUpload / handleLike: if (isGeneratingRef.current) return
LockHeld == isGenerating

\* ImageUploader.handleFile: a file is chosen or dropped; the FileReader starts
SelectFile ==
  /\ UploadScreenShown /\ ~isLoading
  /\ filesSelected < MaxFiles
  /\ filesSelected' = filesSelected + 1
  /\ pendingReads' = pendingReads + 1
  /\ UNCHANGED <<isLoading, hasUploaded, playlist, currentIndex, consecutiveSkips,
                 isGenerating, flows, passes, aiCalls, expansions, placed, rvars, cvars>>

\* reader.onloadend -> handleImageUpload, up to the await of the analysis
handleImageUpload ==
  /\ pendingReads > 0
  /\ pendingReads' = pendingReads - 1
  /\ IF LockHeld
       THEN UNCHANGED <<isLoading, hasUploaded, playlist, consecutiveSkips,
                        isGenerating, flows, aiCalls, placed>>
       ELSE /\ isLoading' = TRUE
            /\ hasUploaded' = TRUE
            /\ playlist' = <<>>
            /\ placed' = <<>>
            /\ consecutiveSkips' = 0
            /\ isGenerating' = TRUE
            /\ aiCalls' = aiCalls + 1
            /\ flows' = flows \cup {NewFlow("upload", aiCalls + 1, <<>>)}
  /\ UNCHANGED <<currentIndex, passes, expansions, filesSelected, rvars, cvars>>

\* handleImageUpload: analyzeImageAndGetSongs ends.  A failure, or an empty
\* song list (songs[0] is undefined and fetchTrackDetails raises on it), goes
\* to the catch block.
AnalysisEnds(f, out) ==
  /\ f \in flows /\ f.kind = "upload" /\ f.pc = "ai"
  /\ IF out.ok /\ out.songs # <<>>
       THEN /\ flows' = (flows \ {f}) \cup
                          {[f EXCEPT !.pc = "first",
                                     !.songs = WithOrigin(out.songs, f.call)]}
            /\ UNCHANGED <<isLoading, hasUploaded, isGenerating>>
       ELSE /\ flows' = flows \ {f}
            /\ isLoading' = FALSE
            /\ isGenerating' = FALSE
            /\ hasUploaded' = FALSE
  /\ UNCHANGED <<playlist, currentIndex, consecutiveSkips, passes, pendingReads,
                 aiCalls, expansions, filesSelected, placed, rvars, cvars>>

\* a seed that leaves the first entry a placeholder too
InitialPlaylistUnresolved(songs, firstTrack) ==
  [k \in 1..Len(songs) |-> Placeholder(songs[k], k - 1)]

\* handleImageUpload: the initial playlist
InitialPlaylist(songs, firstTrack) ==
  [k \in 1..Len(songs) |->
     IF k = 1 THEN firstTrack ELSE Placeholder(songs[k], k - 1)]

\* handleImageUpload: fetchTrackDetails(songs[0], 0) returns; the playlist is
\* seeded and the backfill of the rest starts
SeedCompletes(f, firstTrack) ==
  /\ f \in flows /\ f.kind = "upload" /\ f.pc = "first"
  /\ firstTrack \in TrackDetailsResults(f.songs[1], 0)
  /\ playlist' = InitialPlaylist(f.songs, firstTrack)
  /\ placed' = [k \in 1..Len(f.songs) |-> f.songs[k].origin]
  /\ currentIndex' = 0
  /\ isLoading' = FALSE
  /\ isGenerating' = FALSE
  /\ flows' = flows \ {f}
  /\ passes' = passes \cup StartedPasses(f.call, f.songs, 1, Len(f.songs))
  /\ UNCHANGED <<hasUploaded, consecutiveSkips, pendingReads, aiCalls,
                 expansions, filesSelected, rvars, cvars>>

\* fetchRemainingTracks: an actualIndex that always adds currentLength
ActualIndexRelative(p) == p.currentLength + p.i

\* fetchRemainingTracks: actualIndex
ActualIndex(p) ==
  IF p.startIndex = 1 THEN p.i ELSE p.currentLength + p.i

\* fetchRemainingTracks: the 1.2 s delay of the iteration ends, fetchTrackDetails starts
BackfillDelayEnds(p) ==
  /\ p \in passes /\ p.pc = "delay"
  /\ passes' = (passes \ {p}) \cup {[p EXCEPT !.pc = "fetch"]}
  /\ UNCHANGED <<isLoading, hasUploaded, playlist, currentIndex, consecutiveSkips,
                 isGenerating, flows, pendingReads, aiCalls, expansions,
                 filesSelected, placed, rvars, cvars>>

\* fetchRemainingTracks: the setPlaylist updater
BackfillWrite(prev, actualIndex, track) ==
  IF actualIndex < Len(prev) THEN [prev EXCEPT ![actualIndex + 1] = track] ELSE prev

\* fetchRemainingTracks: a loop that does not move on
AdvancedPassesRepeating(p) == {[p EXCEPT !.pc = "delay"]}

\* fetchRemainingTracks: the pass after an iteration
AdvancedPasses(p) ==
  IF p.i + 1 < Len(p.suggestions)
    THEN {[p EXCEPT !.i = p.i + 1, !.pc = "delay"]}
    ELSE {}

\* fetchRemainingTracks: fetchTrackDetails returns and the entry is written
BackfillFetchReturns(p, track) ==
  /\ p \in passes /\ p.pc = "fetch"
  /\ track \in TrackDetailsResults(p.suggestions[p.i + 1], ActualIndex(p))
  /\ playlist' = BackfillWrite(playlist, ActualIndex(p), track)
  /\ passes' = (passes \ {p}) \cup AdvancedPasses(p)
  /\ UNCHANGED <<isLoading, hasUploaded, currentIndex, consecutiveSkips,
                 isGenerating, flows, pendingReads, aiCalls, expansions,
                 filesSelected, placed, rvars, cvars>>

\* the listened durations, in seconds, that a next event reports
Durations == {7, 8}

\* handleNext: an off-by-one variant of the pivot condition
PivotTriggeredLate(newSkips, generating) ==
  newSkips > PivotSkips /\ ~generating

\* handleNext: newSkips >= 3 && !isGeneratingRef.current
PivotTriggered(newSkips, generating) ==
  newSkips >= PivotSkips /\ ~generating

\* handleNext: a counter that counts skips of unplayable tracks too
SkipsAfterNextCountingAll(isPlayable, fast, pivots, skips) ==
  IF ~fast THEN 0
  ELSE IF pivots THEN 0
  ELSE skips + 1

\* handleNext: a counter that a long listen leaves as it is
SkipsAfterNextKeptOnListen(isPlayable, fast, pivots, skips) ==
  IF ~isPlayable THEN skips
  ELSE IF ~fast THEN skips
  ELSE IF pivots THEN 0
  ELSE skips + 1

\* handleNext: a counter that the start of a pivot does not reset
SkipsAfterNextKeptOnPivot(isPlayable, fast, pivots, skips) ==
  IF ~isPlayable THEN skips
  ELSE IF ~fast THEN 0
  ELSE skips + 1

\* handleNext: consecutiveSkips after the event
SkipsAfterNext(isPlayable, fast, pivots, skips) ==
  IF ~isPlayable THEN skips
  ELSE IF ~fast THEN 0
  ELSE IF pivots THEN 0
  ELSE skips + 1

\* handleNext(duration), up to the await of handlePivot when it starts one;
\* the cursor update of a next that starts a pivot waits for the pivot
handleNext(duration) ==
  /\ PlayerShown
  /\ LET currentTrack == playlist[currentIndex + 1]
         fast == duration < FastSkipSeconds
         newSkips == consecutiveSkips + 1
         pivots == /\ currentTrack.isPlayable
                   /\ fast
                   /\ PivotTriggered(newSkips, isGenerating)
     IN /\ (currentTrack.isPlayable /\ fast) => consecutiveSkips < MaxSkips
        /\ pivots => expansions < MaxExpansions
        /\ consecutiveSkips' =
             SkipsAfterNext(currentTrack.isPlayable, fast, pivots, consecutiveSkips)
        /\ IF pivots
             THEN /\ isGenerating' = TRUE
                  /\ aiCalls' = aiCalls + 1
                  /\ expansions' = expansions + 1
                  /\ flows' = flows \cup {NewFlow("pivot", aiCalls + 1, playlist)}
                  /\ UNCHANGED currentIndex
             ELSE /\ currentIndex' = (currentIndex + 1) % Len(playlist)
                  /\ UNCHANGED <<isGenerating, aiCalls, expansions, flows>>
  /\ UNCHANGED <<isLoading, hasUploaded, playlist, passes, pendingReads,
                 filesSelected, placed, rvars, cvars>>

\* handlePrev
handlePrev ==
  /\ PlayerShown
  /\ currentIndex' = (currentIndex - 1 + Len(playlist)) % Len(playlist)
  /\ UNCHANGED <<isLoading, hasUploaded, playlist, consecutiveSkips, isGenerating,
                 flows, passes, pendingReads, aiCalls, expansions, filesSelected,
                 placed, rvars, cvars>>

\* handleLike(track), up to the await of getRefinedSongs
handleLike ==
  /\ PlayerShown
  /\ IF LockHeld
       THEN UNCHANGED <<isGenerating, consecutiveSkips, flows, aiCalls, expansions>>
       ELSE /\ expansions < MaxExpansions
            /\ isGenerating' = TRUE
            /\ consecutiveSkips' = 0
            /\ aiCalls' = aiCalls + 1
            /\ expansions' = expansions + 1
            /\ flows' = flows \cup {NewFlow("like", aiCalls + 1, playlist)}
  /\ UNCHANGED <<isLoading, hasUploaded, playlist, currentIndex, passes,
                 pendingReads, filesSelected, placed, rvars, cvars>>

\* addSongsToPlaylist: isDuplicate, against the playlist the handler closed over
IsDuplicate(existing, suggestion) ==
  \E k \in 1..Len(existing) :
    \/ trim(toLowerCase(existing[k].title)) = trim(toLowerCase(suggestion.title))
    \/ /\ includes(toLowerCase(existing[k].title), toLowerCase(suggestion.title))
       /\ includes(toLowerCase(existing[k].artist), toLowerCase(suggestion.artist))

\* addSongsToPlaylist: uniqueSuggestions
UniqueSuggestions(existing, newSongs) ==
  SelectSeq(newSongs, LAMBDA suggestion : ~IsDuplicate(existing, suggestion))

\* addSongsToPlaylist: newPlaceholders
NewPlaceholders(unique, currentLength, now) ==
  [k \in 1..Len(unique) |-> Placeholder(unique[k], currentLength + (k - 1) + now)]

\* handleLike / handlePivot without the finally block: the lock is cleared
\* only at the end of the try block
LockAfterExpansionNoFinally(out) == ~out.ok

\* handleLike / handlePivot: isGeneratingRef.current after the finally block
LockAfterExpansion(out) == FALSE

\* an AI call that hands over a song although it failed
ReturnedSongsDespiteFailure(out, call) ==
  IF out.ok THEN WithOrigin(out.songs, call) ELSE WithOrigin(<<SongB>>, call)

\* handleLike / handlePivot: the songs addSongsToPlaylist is called with; none
\* when the AI call raised (the catch block skips addSongsToPlaylist)
ReturnedSongs(out, call) ==
  IF out.ok THEN WithOrigin(out.songs, call) ELSE <<>>

\* handleLike / handlePivot: the AI call ends; addSongsToPlaylist runs with the
\* playlist of the render the handler was created in (f.snap); the lock is
\* released; a next that started the pivot then moves the cursor, modulo the
\* length of that same playlist
ExpansionEnds(f, out, now) ==
  /\ f \in flows /\ f.kind \in {"like", "pivot"}
  /\ LET newSongs == ReturnedSongs(out, f.call)
         unique == UniqueSuggestions(f.snap, newSongs)
         currentLength == Len(f.snap)
     IN IF Len(unique) > 0
          THEN /\ playlist' = playlist \o NewPlaceholders(unique, currentLength, now)
               /\ passes' = passes \cup StartedPasses(f.call, unique, 0, currentLength)
               /\ placed' = placed \o [k \in 1..Len(unique) |-> unique[k].origin]
          ELSE UNCHANGED <<playlist, passes, placed>>
  /\ isGenerating' = LockAfterExpansion(out)
  /\ flows' = flows \ {f}
  /\ IF f.kind = "pivot"
       THEN currentIndex' = (currentIndex + 1) % Len(f.snap)
       ELSE UNCHANGED currentIndex
  /\ UNCHANGED <<isLoading, hasUploaded, consecutiveSkips, pendingReads, aiCalls,
                 expansions, filesSelected, rvars, cvars>>

\* resetApp
resetApp ==
  /\ ResetShown
  /\ hasUploaded' = FALSE
  /\ playlist' = <<>>
  /\ placed' = <<>>
  /\ consecutiveSkips' = 0
  /\ isGenerating' = FALSE
  /\ UNCHANGED <<isLoading, currentIndex, flows, passes, pendingReads, aiCalls,
                 expansions, filesSelected, rvars, cvars>>

Init == AppInit /\ ResolverIdle /\ CleanIdle

Next ==
  \/ SelectFile
  \/ handleImageUpload
  \/ \E f \in flows, out \in AiOutcomes : AnalysisEnds(f, out)
  \/ \E f \in {g \in flows : g.pc = "first"} :
       \E t \in TrackDetailsResults(f.songs[1], 0) : SeedCompletes(f, t)
  \/ \E p \in passes : BackfillDelayEnds(p)
  \/ \E p \in {q \in passes : q.pc = "fetch"} :
       \E t \in TrackDetailsResults(p.suggestions[p.i + 1], ActualIndex(p)) :
         BackfillFetchReturns(p, t)
  \/ \E d \in Durations : handleNext(d)
  \/ handlePrev
  \/ handleLike
  \/ \E f \in flows, out \in AiOutcomes, now \in Timestamps : ExpansionEnds(f, out, now)
  \/ resetApp

Spec == Init /\ [][Next]_vars

(***************************************************************************)
(* One session: a single upload and no reset.  The external calls (the     *)
(* FileReader, the AI service, the catalog, the backfill timer) all        *)
(* return; nothing obliges the user to act.                                *)
(***************************************************************************)
\* a step in which something the App waits for returns
ExternalReturns ==
  \/ handleImageUpload
  \/ \E f \in flows, out \in AiOutcomes : AnalysisEnds(f, out)
  \/ \E f \in {g \in flows : g.pc = "first"} :
       \E t \in TrackDetailsResults(f.songs[1], 0) : SeedCompletes(f, t)
  \/ \E p \in passes : BackfillDelayEnds(p)
  \/ \E p \in {q \in passes : q.pc = "fetch"} :
       \E t \in TrackDetailsResults(p.suggestions[p.i + 1], ActualIndex(p)) :
         BackfillFetchReturns(p, t)
  \/ \E f \in flows, out \in AiOutcomes, now \in Timestamps : ExpansionEnds(f, out, now)

SessionNext ==
  \/ (filesSelected = 0 /\ SelectFile)
  \/ ExternalReturns
  \/ \E d \in Durations : handleNext(d)
  \/ handlePrev
  \/ handleLike

SpecSession == Init /\ [][SessionNext]_vars /\ WF_vars(ExternalReturns)

\* the whole App, the external calls all returning
FairSpec == Spec /\ WF_vars(ExternalReturns)

(***************************************************************************)
(* Claims about the App.                                                   *)
(***************************************************************************)
\* the handler invocations whose AI call is in flight
AiCallsInFlight == {f \in flows : f.pc = "ai"}

IsPlaceholder(t) == t.coverUrl = PlaceholderCover

\* C1 (single-flight): in every reachable state at most one AI call (initial
\* analysis, refine or pivot) is in flight.
C1_SingleFlight == Cardinality(AiCallsInFlight) <= 1

\* C2 (backfill never clobbers): whenever a pass is about to write the result
\* for its suggestion s (its fetchTrackDetails is in flight) and the playlist
\* has an entry at the target index, that entry is the placeholder created for s.
C2_BackfillWritesOwnPlaceholder ==
  \A p \in passes :
    (p.pc = "fetch" /\ ActualIndex(p) < Len(playlist)) =>
      /\ playlist[ActualIndex(p) + 1].origin = p.suggestions[p.i + 1].origin
      /\ IsPlaceholder(playlist[ActualIndex(p) + 1])

\* C8 (dedup correctness): when the AI call of a refine or pivot ends, the
\* playlist grows by the placeholders of exactly those new suggestions that
\* match no entry of the playlist as it is at that moment, in their order.
C8_DedupAgainstCurrentPlaylist ==
  [][\A f \in flows, out \in AiOutcomes, now \in Timestamps :
       ExpansionEnds(f, out, now) =>
         LET newSongs == IF out.ok THEN WithOrigin(out.songs, f.call) ELSE <<>>
             unique == UniqueSuggestions(playlist, newSongs)
         IN /\ Len(playlist') = Len(playlist) + Len(unique)
            /\ \A k \in 1..Len(playlist) : playlist'[k] = playlist[k]
            /\ \A k \in 1..Len(unique) :
                 /\ playlist'[Len(playlist) + k].origin = unique[k].origin
                 /\ IsPlaceholder(playlist'[Len(playlist) + k])]_vars

\* the suggestion each playlist entry stands for, in playlist order
PlaylistOrigins == [k \in 1..Len(playlist) |-> playlist[k].origin]

\* the longest playlist one session can build
MaxPlaylistLen == MaxBatch * (MaxExpansions + 1)

\* the AI calls one run can issue
MaxCalls == MaxFiles + MaxExpansions

PlaceholderAt(k) == k <= Len(playlist) /\ IsPlaceholder(playlist[k])

ResolvedAt(k) == k <= Len(playlist) /\ ~IsPlaceholder(playlist[k])

\* C3 (backfill completes in place): in a session with no reset whose external
\* calls all return, the playlist entries stay in the order in which their
\* suggestions were seeded and appended (the entry at an index always stands
\* for the suggestion placed there), every placeholder is eventually replaced
\* at its own index by a resolver result, and no placeholder is left once no
\* backfill pass is running.
C3_BackfillCompletes ==
  /\ [](PlaylistOrigins = placed)
  /\ [](passes = {} => \A k \in 1..Len(playlist) : ~IsPlaceholder(playlist[k]))
  /\ \A k \in 1..MaxPlaylistLen : PlaceholderAt(k) ~> ResolvedAt(k)

\* a seeded and an appended placeholder have both been resolved, all passes done
C3_Witness ==
  /\ passes = {} /\ flows = {}
  /\ Len(playlist) > 2
  /\ \E k \in 2..Len(playlist) : ResolvedAt(k) /\ playlist[k].origin = <<1, k - 1>>
  /\ \E k \in 2..Len(playlist) : playlist[k].origin[1] = 2 /\ ~IsPlaceholder(playlist[k])

\* C9 (skip-counter trigger): a next event on a playable track with a listened
\* duration under 8 s issues no AI call while the counter is below 2 (the first
\* and second of three skips only count), issues exactly one pivot call when
\* it is the third (counter at 2) and the lock is free, resetting the counter
\* to 0 and acquiring the lock, and issues no call when the lock is held.
C9_SkipCounterTrigger ==
  [][\A d \in Durations :
       (/\ handleNext(d)
        /\ d < FastSkipSeconds
        /\ playlist[currentIndex + 1].isPlayable) =>
         /\ consecutiveSkips < PivotSkips - 1 =>
              /\ aiCalls' = aiCalls /\ flows' = flows
              /\ isGenerating' = isGenerating
              /\ consecutiveSkips' = consecutiveSkips + 1
         /\ (consecutiveSkips = PivotSkips - 1 /\ ~isGenerating) =>
              /\ aiCalls' = aiCalls + 1
              /\ \E f \in flows' :
                   /\ f.kind = "pivot" /\ f.call = aiCalls' /\ f.pc = "ai"
                   /\ flows' = flows \cup {f} /\ f \notin flows
              /\ isGenerating'
              /\ consecutiveSkips' = 0
         /\ isGenerating =>
              /\ aiCalls' = aiCalls /\ flows' = flows
              /\ isGenerating']_vars

\* the one pivot call of the session is in flight, holding the lock, and a
\* further fast skip has been counted since it was issued
C9_Witness ==
  /\ isGenerating
  /\ aiCalls = 2
  /\ \E f \in flows : f.kind = "pivot" /\ f.pc = "ai"
  /\ consecutiveSkips >= 1

\* the AI-call flows that have not ended
FlowCalls == {f.call : f \in flows}

\* C10 (lock released): every flow that has started ends, provided the
\* external calls return, and the step in which a flow ends (its AI call
\* having succeeded, answered with nothing, or raised) leaves the lock free.
C10_LockReleased ==
  /\ [][\A f \in flows :
          f.call \notin {g.call : g \in flows'} => ~isGenerating']_vars
  /\ \A c \in 1..MaxCalls : (c \in FlowCalls) ~> (c \notin FlowCalls)

\* the refine or pivot call of a session has ended without adding anything
\* and the lock is free
C10_Witness ==
  /\ aiCalls = 2 /\ expansions = 1
  /\ hasUploaded
  /\ flows = {}
  /\ ~isGenerating
  /\ placed # <<>>
  /\ \A k \in 1..Len(placed) : placed[k][1] = 1

\* the App state a dropped event must leave alone
DropFrame ==
  <<playlist, currentIndex, consecutiveSkips, isLoading, isGenerating, aiCalls,
    flows, passes>>

\* C11 (events dropped under the lock): while the lock is held, a like changes
\* nothing at all, and an upload changes nothing but the pending file read it
\* consumes: no AI call, no flow or pass registered that could replay it, and
\* playlist, cursor, skip counter, loading flag and lock as they were.
C11_DroppedUnderLock ==
  /\ []((isGenerating /\ PlayerShown) => ~ENABLED (handleLike /\ vars' # vars))
  /\ [][(isGenerating /\ handleImageUpload) => UNCHANGED DropFrame]_vars

\* the second file's read arrived during the first upload and was dropped, and
\* the refine call now holds the lock with the player on screen
C11_Witness ==
  /\ filesSelected = 2 /\ pendingReads = 0
  /\ aiCalls = 2 /\ expansions = 1
  /\ isGenerating /\ PlayerShown
  /\ \E f \in flows : f.kind = "like" /\ f.pc = "ai"

\* what a next event that starts no pivot leaves alone
NoPivotFrame == <<aiCalls, flows, isGenerating, playlist, passes, expansions>>

\* C12 (unplayable tracks do not count): a next event on a track that is not
\* playable, with any listened duration, leaves the skip counter as it was,
\* starts no pivot, and moves the cursor one step forward.
C12_UnplayableNotCounted ==
  [][\A d \in Durations :
       (handleNext(d) /\ ~playlist[currentIndex + 1].isPlayable) =>
         /\ consecutiveSkips' = consecutiveSkips
         /\ UNCHANGED NoPivotFrame
         /\ currentIndex' = (currentIndex + 1) % Len(playlist)]_vars

\* with two fast skips counted and the lock free, the player shows an
\* unplayable track that is not the only one: the next event moves off it
C12_Witness ==
  /\ PlayerShown
  /\ consecutiveSkips = PivotSkips - 1 /\ ~isGenerating
  /\ Len(playlist) > 1
  /\ ~playlist[currentIndex + 1].isPlayable

\* C13 (a long listen resets the counter): a next event on a playable track
\* with a listened duration of 8 s or more sets the skip counter to 0 whatever
\* it was, and starts no pivot.
C13_ListenResetsCounter ==
  [][\A d \in Durations :
       (/\ handleNext(d)
        /\ playlist[currentIndex + 1].isPlayable
        /\ d >= FastSkipSeconds) =>
         /\ consecutiveSkips' = 0
         /\ UNCHANGED NoPivotFrame]_vars

\* the counter has passed the pivot threshold while the lock was held, and
\* the player shows a playable track: a long listen now clears the count
C13_Witness ==
  /\ PlayerShown
  /\ consecutiveSkips >= PivotSkips
  /\ playlist[currentIndex + 1].isPlayable

\* C14 (cursor wraparound): a next event moves the cursor from i to
\* (i + 1) mod N and a prev event from i to (i - 1 + N) mod N, N being the
\* length of the playlist when the cursor is updated; for a next that started
\* a pivot the update comes when the pivot ends, after its append.
C14_CursorWraparound ==
  [][/\ \A d \in Durations :
          (handleNext(d) /\ flows' = flows) =>
            currentIndex' = (currentIndex + 1) % Len(playlist)
     /\ (handlePrev /\ PlayerShown) =>
          currentIndex' = (currentIndex - 1 + Len(playlist)) % Len(playlist)
     /\ \A f \in flows, out \in AiOutcomes, now \in Timestamps :
          (ExpansionEnds(f, out, now) /\ f.kind = "pivot"
             /\ Len(playlist') > 0) =>
            currentIndex' = (currentIndex + 1) % Len(playlist')]_vars

\* the playlist only grew at its end
Appended(old, new) ==
  /\ Len(new) >= Len(old)
  /\ \A k \in 1..Len(old) : new[k] = old[k]

\* one entry of the playlist was overwritten where it stood
OverwrittenInPlace(old, new) ==
  /\ Len(new) = Len(old)
  /\ Cardinality({k \in 1..Len(old) : new[k] # old[k]}) = 1

\* C15 (no shrinking, stable indices): every step other than a reset and the
\* start of an upload either leaves the existing entries where they are,
\* adding at most new ones past the end, or overwrites one entry in place.
C15_NeverShrinksNorMoves ==
  [][(~resetApp /\ ~handleImageUpload) =>
       \/ Appended(playlist, playlist')
       \/ OverwrittenInPlace(playlist, playlist')]_vars

\* C16 (reset discards the playlist): from a reset, and likewise before the
\* first upload and after a failed one, until the seed of the next upload
\* completes, the playlist is empty, whatever flows of the earlier session
\* complete meanwhile; and until the next upload starts the lock is free and
\* the skip counter is 0.
C16_EmptyUntilSeeded ==
  /\ (~hasUploaded \/ isLoading) => playlist = <<>>
  /\ ~hasUploaded => (~isGenerating /\ consecutiveSkips = 0)

\* C17 (a failed expansion changes nothing): when the AI call of a refine or
\* pivot flow raises or returns no songs, the step in which the flow ends
\* leaves the playlist as it was and starts no backfill pass.
C17_FailedExpansionNoChange ==
  [][\A f \in flows, out \in AiOutcomes, now \in Timestamps :
       (ExpansionEnds(f, out, now) /\ (~out.ok \/ out.songs = <<>>)) =>
         /\ playlist' = playlist
         /\ passes' = passes]_vars

\* the one refine or pivot flow has ended with nothing appended, no pass
\* running, every seeded entry resolved
C17_Witness ==
  /\ aiCalls = 2 /\ expansions = 1 /\ filesSelected = 1
  /\ flows = {} /\ passes = {}
  /\ Len(playlist) = MaxBatch
  /\ \A k \in 1..Len(playlist) :
       playlist[k].origin[1] = 1 /\ ~IsPlaceholder(playlist[k])

\* C18 (seed completion): when the first track of an upload with n >= 1
\* suggestions is resolved, the playlist becomes exactly n entries: the
\* resolver's result for suggestion 0, then the placeholder of each other
\* suggestion at its own index; the cursor is 0, loading is off, the lock is
\* free, and only now the backfill pass of this upload exists, at index 1.
C18_SeedCompletion ==
  [][\A f \in {g \in flows : g.pc = "first"} :
       \A t \in TrackDetailsResults(f.songs[1], 0) :
         SeedCompletes(f, t) =>
           /\ Len(f.songs) >= 1
           /\ Len(playlist') = Len(f.songs)
           /\ playlist'[1] = t /\ t.origin = f.songs[1].origin
           /\ \A k \in 2..Len(f.songs) :
                /\ playlist'[k].origin = f.songs[k].origin
                /\ playlist'[k].title = f.songs[k].title
                /\ playlist'[k].artist = f.songs[k].artist
                /\ playlist'[k].id = k - 1
                /\ playlist'[k].previewUrl = Null
                /\ playlist'[k].isPlayable = FALSE
                /\ playlist'[k].externalUrl = <<>>
           /\ currentIndex' = 0 /\ ~isLoading' /\ ~isGenerating'
           /\ {p \in passes : p.call = f.call} = {}
           /\ {p \in passes' : p.call = f.call} =
                IF Len(f.songs) > 1
                  THEN {[call |-> f.call, suggestions |-> f.songs, startIndex |-> 1,
                         currentLength |-> Len(f.songs), i |-> 1, pc |-> "delay"]}
                  ELSE {}]_vars

\* an upload of two suggestions has just been seeded: entry 0 resolved, entry
\* 1 a placeholder, the backfill pass waiting at index 1
C18_Witness ==
  /\ Len(playlist) = 2 /\ expansions = 0
  /\ ~IsPlaceholder(playlist[1]) /\ IsPlaceholder(playlist[2])
  /\ currentIndex = 0 /\ ~isLoading /\ ~isGenerating
  /\ \E p \in passes : p.startIndex = 1 /\ p.i = 1 /\ p.pc = "delay"

\* the backfill pass of AI call c, if it is running
PassOf(ps, c) == {p \in ps : p.call = c}

\* the write of pass p's current resolution is issued in this step
WriteIssued(p) ==
  \E t \in TrackDetailsResults(p.suggestions[p.i + 1], ActualIndex(p)) :
    playlist' = BackfillWrite(playlist, ActualIndex(p), t)

\* C20 (a pass is sequential): a backfill pass is at one suggestion at a time;
\* it starts at its start index in the delay, goes from the delay of
\* suggestion i to the resolution of i, and from there, issuing the write for
\* i, to the delay of i + 1, or ends after the last suggestion; so the
\* suggestions are resolved one after the other in ascending order, once each.
C20_PassSequential ==
  [][\A c \in 1..MaxCalls :
       /\ Cardinality(PassOf(passes', c)) <= 1
       /\ \A p \in PassOf(passes, c) :
            /\ \A q \in PassOf(passes', c) :
                 \/ q = p
                 \/ p.pc = "delay" /\ q = [p EXCEPT !.pc = "fetch"]
                 \/ /\ p.pc = "fetch" /\ WriteIssued(p)
                    /\ q = [p EXCEPT !.i = p.i + 1, !.pc = "delay"]
                    /\ q.i < Len(q.suggestions)
            /\ PassOf(passes', c) = {} =>
                 /\ p.pc = "fetch" /\ WriteIssued(p)
                 /\ p.i = Len(p.suggestions) - 1
       /\ \A q \in PassOf(passes', c) :
            PassOf(passes, c) = {} => (q.pc = "delay" /\ q.i = q.startIndex)]_vars

\* the pass of an appended batch is resolving its second suggestion
C20_Witness ==
  \E p \in passes : p.startIndex = 0 /\ p.i = 1 /\ p.pc = "fetch"

PivotsStarted == {f \in flows' \ flows : f.kind = "pivot"}

C23_CursorValid ==
  playlist # <<>> => (0 <= currentIndex /\ currentIndex < Len(playlist))

(***************************************************************************)
(* cleanString on its own: applied to a string, then to its own result.    *)
(***************************************************************************)
MaxCleanLen == 4

\* the pieces the input strings are made of: the characters and words the
\* patterns of cleanString look for, a letter and a blank
CleanTokens ==
  {"(", ")", "[", "]", "-", "&", ",", " ", "a",
   "feat.", "with", "remaster", "ed", "single", "version"}

RECURSIVE StringsUpTo(_)
StringsUpTo(n) ==
  IF n = 0 THEN {<<>>}
  ELSE LET shorter == StringsUpTo(n - 1)
       IN shorter \cup {Append(t, c) : t \in shorter, c \in CleanTokens}

CleanInputs == StringsUpTo(MaxCleanLen)

CleanInit ==
  /\ AppInit /\ ResolverIdle
  /\ cleanRuns \in {<<str>> : str \in CleanInputs}

\* cleanString(str), then cleanString of what it returned
Normalize ==
  /\ cleanRuns # <<>> /\ Len(cleanRuns) < 3
  /\ cleanRuns' = Append(cleanRuns, cleanString(cleanRuns[Len(cleanRuns)]))
  /\ UNCHANGED <<avars, rvars>>

CleanNext == Normalize

SpecClean == CleanInit /\ [][CleanNext]_vars

\* C19 (normalizer idempotence): cleanString applied to its own result
\* returns that result.
C19_CleanStringIdempotent ==
  Len(cleanRuns) = 3 => cleanRuns[3] = cleanRuns[2]

====
